---- MODULE Spec2Model ----
(***************************************************************************)
(* Model of the e-mail synchronisation engine (EmailSyncService) and of    *)
(* the parts of ImapService and of the Mongo collections it drives.        *)
(* Every action is one database or IMAP round trip of a handler together   *)
(* with the synchronous code that follows it up to the next await.         *)
(* Document fields that no modelled code reads and no property mentions    *)
(* (startedAt, currentFolder, totalEmails, syncSpeed, syncedEmails) are    *)
(* left out, and a round trip that touches no modelled state is taken      *)
(* together with the round trip that follows it.                           *)
(***************************************************************************)
EXTENDS Integers, Sequences, FiniteSets, TLC

\* ------------------------------------------------------------------ bounds
MaxCalls == 2          \* service calls in flight at once
MaxTasks == 2          \* performSync runs in flight at once
MaxOps == 3            \* startSync, pauseSync, resumeSync and stopSync calls made
                       \* in one behaviour, those of startAllSync and scheduledSync included
MaxRuns == 2           \* performSync runs started in one behaviour
MaxSessions == 4       \* IMAP sessions opened in one behaviour
MaxTotal == 5          \* messages in the folder of one getEmails call
MaxLimit == 4          \* limit of one getEmails call
MaxOffset == 6         \* offset of one getEmails call
MaxParseTotal == 3     \* messages in the folder of one fetch followed message by message

\* -------------------------------------------------------- program constants
DefaultBatchSize == 50 \* batchSize of resumeSync, startAllSync, scheduledSync
UnlimitedEmails == 0   \* maxEmails = 0 means no cap
\* ImapService.maxConnections is configuration (MAX_CONCURRENT_CONNECTIONS,
\* 10 when unset); the pool is run under a configured maximum of 2.
MaxConnections == 2

\* ------------------------------------------------------------------ inputs
AccountIds == {"a1", "a2", "a3"}      \* "a3" has no account document
ExistingAccounts == {"a1", "a2"}
AccountOrder == <<"a1", "a2">>        \* order in which find() returns them
BatchSizes == {DefaultBatchSize}
MaxEmailsOpts == {UnlimitedEmails, 1}
NullId == 0                           \* null lastProcessedMessageId
FolderNames == {"INBOX", "Sent"}
FolderOrder == <<"INBOX", "Sent">>    \* order in which getBoxes lists them
MessageIds == {1, 2, 3}

\* The remote mailboxes: messageIds per folder in ascending sequence number
\* (the newest is the last one). a1 holds messages, every folder of a2 is empty.
Mailboxes ==
    [a \in AccountIds |->
        IF a = "a1" THEN [INBOX |-> <<>>, Sent |-> <<1>>]
        ELSE [INBOX |-> <<>>, Sent |-> <<>>]]

\* A mailbox whose INBOX holds more messages than one batch: start requests
\* with a small batchSize (the DTO allows 1..1000) and with a cap.
DeepMailboxes ==
    [a \in AccountIds |->
        IF a = "a1" THEN [INBOX |-> <<1, 2, 3>>, Sent |-> <<>>]
        ELSE [INBOX |-> <<>>, Sent |-> <<>>]]
SmallBatchSizes == {1, 2}

Min(x, y) == IF x < y THEN x ELSE y
Max(x, y) == IF x > y THEN x ELSE y

VARIABLES
    server,       \* the IMAP servers: mailboxes, and the messages whose
                  \* document fails schema validation on save
    accounts,     \* EmailAccount collection
    syncStatus,   \* SyncStatus collection, one document per account at most
    emails,       \* Email collection: number of documents per (account, messageId)
    syncJobs,     \* EmailSyncService.syncJobs: account -> registered run
    tasks,        \* performSync runs in flight
    calls,        \* service calls in flight
    response,     \* what the step just taken returned to the caller of a service call
    issued,       \* number of start, pause, resume and stop calls made so far
    started,      \* number of performSync runs started so far
    unhandled,    \* the account whose run's promise the step just taken rejected
                  \* with no handler attached (an unhandledRejection event)
    connectionPool, \* ImapService.connectionPool: account key -> cached session
    sessions,     \* the Imap objects created so far: account key and state
    acquired,     \* the session the step just taken handed to a caller of
                  \* getConnection or createConnection
    fetchCall,    \* one call of ImapService.getEmails: arguments and result
    analysis,     \* one call of EmailAnalyticsService.analyzeEmail
    probe         \* the TLS and relay probes of one sending server

vars == <<server, accounts, syncStatus, emails, syncJobs, tasks, calls, response, issued, started,
          unhandled, connectionPool, sessions, acquired, fetchCall, analysis, probe>>
serviceVars == <<server, accounts, syncStatus, emails, syncJobs, tasks, calls, response, issued,
                 started, unhandled>>
imapVars == <<connectionPool, sessions, acquired>>
unitVars == <<fetchCall, analysis, probe>>

CallIds == 1..MaxCalls
TaskIds == 1..MaxTasks
NoJob == 0

NoAccount == [exists |-> FALSE]
NoRecord == [exists |-> FALSE]
NoCall == [op |-> "none"]
NoTask == [pc |-> "none"]
NoProgress == [total |-> -1, processed |-> -1, failed |-> -1]
NoResponse ==
    [op |-> "none", acc |-> "none", result |-> "none", status |-> "none", results |-> <<>>]

\* Schema defaults of a SyncStatus document created by the upsert.
NewRecord ==
    [exists |-> TRUE, status |-> "IDLE",
     processedEmails |-> 0, failedEmails |-> 0,
     lastProcessedMessageId |-> NullId,
     completedAt |-> FALSE, errorMessage |-> "null",
     folderProgress |-> [f \in FolderNames |-> NoProgress],
     pausedAt |-> -1, resumed |-> FALSE]

InitProgram ==
    /\ accounts = [a \in AccountIds |->
                     IF a \in ExistingAccounts
                     THEN [exists |-> TRUE, isActive |-> TRUE, isConnected |-> TRUE,
                           errorMessage |-> "null", lastSyncAt |-> FALSE]
                     ELSE NoAccount]
    /\ syncStatus = [a \in AccountIds |-> NoRecord]
    /\ emails = [a \in AccountIds |-> [m \in MessageIds |-> 0]]
    /\ syncJobs = [a \in AccountIds |-> NoJob]
    /\ tasks = [t \in TaskIds |-> NoTask]
    /\ calls = [c \in CallIds |-> NoCall]
    /\ response = NoResponse
    /\ issued = 0
    /\ started = 0
    /\ unhandled = "none"

SessionIds == 1..MaxSessions
NoSession == 0
NoImap == [key |-> "none", state |-> "none", errorHandled |-> FALSE, endHandled |-> FALSE]

\* ImapService after construction: an empty pool
InitImap ==
    /\ connectionPool = [k \in AccountIds |-> NoSession]
    /\ sessions = [s \in SessionIds |-> NoImap]
    /\ acquired = NoSession

NoFetch == [pc |-> "none"]
NoAnalysis == [pc |-> "none"]
NoProbe == [pc |-> "none"]

\* no call of getEmails, analyzeEmail or the probes is under way
InitUnits ==
    /\ fetchCall = NoFetch
    /\ analysis = NoAnalysis
    /\ probe = NoProbe

Init ==
    /\ server = [mailbox |-> Mailboxes, invalid |-> {}]
    /\ InitProgram
    /\ InitImap
    /\ InitUnits

\* ------------------------------------------------------------ small helpers
\* a step that returns nothing to any caller
NoReply == response' = NoResponse
\* a call is made: the budget of calls
Settled == unhandled' = "none"
Issue ==
    /\ issued < MaxOps /\ issued' = issued + 1
    /\ UNCHANGED <<server, started>> /\ UNCHANGED imapVars /\ UNCHANGED unitVars /\ Settled
\* a run is started: the budget of runs
Spawn ==
    /\ started' = started + 1
    /\ UNCHANGED <<server, issued>> /\ UNCHANGED imapVars /\ UNCHANGED unitVars /\ Settled
Frame == UNCHANGED <<server, issued, started>> /\ UNCHANGED imapVars /\ UNCHANGED unitVars /\ Settled

FreeCalls == {c \in CallIds : calls[c] = NoCall}
FreeTasks == {t \in TaskIds : tasks[t] = NoTask /\ started < MaxRuns}
LowestOf(S) == CHOOSE x \in S : \A y \in S : x <= y

TasksOf(a) == {t \in TaskIds : tasks[t] # NoTask /\ tasks[t].acc = a}

\* find({ isActive: true }) / find({ isActive: true, isConnected: true })
ActiveAccounts ==
    SelectSeq(AccountOrder, LAMBDA a : accounts[a].exists /\ accounts[a].isActive)
ActiveConnectedAccounts ==
    SelectSeq(AccountOrder, LAMBDA a : accounts[a].exists /\ accounts[a].isActive
                                        /\ accounts[a].isConnected)

\* startSync without its status check
NeverAlreadyRunning(rec) == FALSE

\* startSync line 67: the only state in which start is refused
IsAlreadyRunning(rec) == rec.exists /\ rec.status = "RUNNING"
\* pauseSync line 112 and resumeSync line 144
CanPause(rec) == rec.status = "RUNNING"
CanResume(rec) == rec.status = "PAUSED"
\* scheduledSync line 502
ScheduledSkips(rec) == rec.exists /\ rec.status = "RUNNING"

NewCall(op, a, pc, bs, me, rest) ==
    [op |-> op, acc |-> a, pc |-> pc, batchSize |-> bs, maxEmails |-> me,
     rest |-> rest, results |-> <<>>]

Reply(op, a, result, status) ==
    [op |-> op, acc |-> a, result |-> result, status |-> status, results |-> <<>>]
\* what startAllSync (its results array) and scheduledSync return
ReplyAll(op, results) ==
    [op |-> op, acc |-> "all", result |-> "ok", status |-> "none", results |-> results]

\* performSync up to its first await (getConnection), lines 280-298
NewTask(a, bs, me, resumed) ==
    [pc |-> "listFolders", acc |-> a, batchSize |-> bs, maxEmails |-> me,
     resumed |-> resumed, foldersToSync |-> <<>>, fi |-> 0, fetched |-> <<>>,
     i |-> 0, j |-> 0, success |-> 0, failed |-> 0,
     totalProcessed |-> 0, totalFailed |-> 0, isCancelled |-> FALSE, error |-> "none"]

\* a loop without the per-account try/catch and continuation: it returns
\* what its first start returned
AbortOnFailedStart(c, rec, result, status) ==
    /\ calls' = [calls EXCEPT ![c] = NoCall]
    /\ response' = Reply(rec.op, rec.acc, result, status)

\* The end of one startSync call: a direct call returns to its caller, a call
\* made by startAllSync or scheduledSync is recorded and the loop goes on.
FinishStart(c, rec, result, status) ==
    IF rec.op = "start"
    THEN /\ calls' = [calls EXCEPT ![c] = NoCall]
         /\ response' = Reply("start", rec.acc, result, status)
    ELSE LET res == IF rec.op = "startAll"
                    THEN Append(rec.results, [acc |-> rec.acc, success |-> (result = "ok")])
                    ELSE rec.results
             rest == Tail(rec.rest)
         IN IF rest = <<>>
            THEN /\ calls' = [calls EXCEPT ![c] = NoCall]
                 /\ response' = ReplyAll(rec.op, res)
            ELSE /\ calls' = [calls EXCEPT ![c] =
                        [rec EXCEPT !.acc = Head(rest), !.rest = rest, !.results = res,
                                    !.pc = IF rec.op = "startAll" THEN "findAccount"
                                           ELSE "schedStatus"]]
                 /\ NoReply

\* ------------------------------------------------------------- startSync
\* line 60-63: findById
FindAccountStep(c, rec) ==
    IF ~accounts[rec.acc].exists
    THEN FinishStart(c, rec, "NotFound", "none")
    ELSE /\ calls' = [calls EXCEPT ![c] = [rec EXCEPT !.pc = "findStatus"]]
         /\ NoReply

StartSync(a, bs, me) ==
    /\ FreeCalls # {}
    /\ FindAccountStep(LowestOf(FreeCalls), NewCall("start", a, "findAccount", bs, me, <<>>))
    /\ UNCHANGED <<accounts, syncStatus, emails, syncJobs, tasks>>
    /\ Issue

StartFindAccount(c) ==
    /\ calls[c].op \in {"startAll", "scheduled"}
    /\ calls[c].pc = "findAccount"
    /\ FindAccountStep(c, calls[c])
    /\ UNCHANGED <<accounts, syncStatus, emails, syncJobs, tasks>>
    /\ Frame

\* line 66-69: findOne and the RUNNING check
StartFindStatus(c) ==
    /\ calls[c].op \in {"start", "startAll", "scheduled"}
    /\ calls[c].pc = "findStatus"
    /\ IF IsAlreadyRunning(syncStatus[calls[c].acc])
       THEN FinishStart(c, calls[c], "AlreadyRunning", "none")
       ELSE /\ calls' = [calls EXCEPT ![c].pc = "upsert"]
            /\ NoReply
    /\ UNCHANGED <<accounts, syncStatus, emails, syncJobs, tasks>>
    /\ Frame

\* line 72-83: the fields the upsert sets
StartUpsertRecord(rec) ==
    [(IF rec.exists THEN rec ELSE NewRecord) EXCEPT
        !.status = "RUNNING",
        !.lastProcessedMessageId = NullId, !.errorMessage = "null",
        !.pausedAt = -1, !.resumed = FALSE]

\* line 72-95: upsert, then performSync is called and registered in syncJobs
StartUpsert(c) ==
    /\ calls[c].op \in {"start", "startAll", "scheduled"}
    /\ calls[c].pc = "upsert"
    /\ FreeTasks # {}
    /\ LET a == calls[c].acc
           t == LowestOf(FreeTasks)
       IN /\ syncStatus' = [syncStatus EXCEPT ![a] = StartUpsertRecord(@)]
          /\ tasks' = [tasks EXCEPT ![t] =
                          NewTask(a, calls[c].batchSize, calls[c].maxEmails, FALSE)]
          /\ syncJobs' = [syncJobs EXCEPT ![a] = t]
          /\ FinishStart(c, calls[c], "ok", "RUNNING")
    /\ UNCHANGED <<accounts, emails>>
    /\ Spawn

\* ------------------------------------------------------------- pauseSync
\* line 107-116
PauseSync(a) ==
    /\ FreeCalls # {}
    /\ LET c == LowestOf(FreeCalls)
           rec == syncStatus[a]
       IN IF ~rec.exists
          THEN /\ response' = Reply("pause", a, "NotFound", "none")
               /\ UNCHANGED calls
          ELSE IF ~CanPause(rec)
          THEN /\ response' = Reply("pause", a, "NoActiveSync", "none")
               /\ UNCHANGED calls
          ELSE /\ calls' = [calls EXCEPT ![c] = NewCall("pause", a, "save", 0, 0, <<>>)]
               /\ NoReply
    /\ UNCHANGED <<accounts, syncStatus, emails, syncJobs, tasks>>
    /\ Issue

\* line 120-124: syncJob is the promise performSync returned; a promise has
\* no cancel method, so the call throws when a job is registered.
CancelThrows(job) == job # NoJob

\* line 116-117; pausedAt remembers processedEmails at the accepted pause
PausedRecord(r) ==
    [r EXCEPT !.status = "PAUSED", !.pausedAt = r.processedEmails, !.resumed = FALSE]

\* line 117-127: save() writes the modified path (status), then the cancel
PauseSave(c) ==
    /\ calls[c].op = "pause"
    /\ calls[c].pc = "save"
    /\ LET a == calls[c].acc
       IN /\ syncStatus' = [syncStatus EXCEPT ![a] =
                                 IF @.exists THEN PausedRecord(@) ELSE @]
          /\ response' = IF CancelThrows(syncJobs[a])
                         THEN Reply("pause", a, "TypeError", "none")
                         ELSE Reply("pause", a, "ok", "PAUSED")
    /\ calls' = [calls EXCEPT ![c] = NoCall]
    /\ UNCHANGED <<accounts, emails, syncJobs, tasks>>
    /\ Frame

\* ------------------------------------------------------------ resumeSync
\* line 139-146
ResumeSync(a) ==
    /\ FreeCalls # {}
    /\ LET c == LowestOf(FreeCalls)
           rec == syncStatus[a]
       IN IF ~rec.exists
          THEN /\ response' = Reply("resume", a, "NotFound", "none")
               /\ UNCHANGED calls
          ELSE IF ~CanResume(rec)
          THEN /\ response' = Reply("resume", a, "NoPausedSync", "none")
               /\ UNCHANGED calls
          ELSE /\ calls' = [calls EXCEPT ![c] =
                              NewCall("resume", a, "findAccount", 0, 0, <<>>)]
               /\ NoReply
    /\ UNCHANGED <<accounts, syncStatus, emails, syncJobs, tasks>>
    /\ Issue

\* line 148-151
ResumeFindAccount(c) ==
    /\ calls[c].op = "resume"
    /\ calls[c].pc = "findAccount"
    /\ IF ~accounts[calls[c].acc].exists
       THEN /\ calls' = [calls EXCEPT ![c] = NoCall]
            /\ response' = Reply("resume", calls[c].acc, "NotFound", "none")
       ELSE /\ calls' = [calls EXCEPT ![c].pc = "save"]
            /\ NoReply
    /\ UNCHANGED <<accounts, syncStatus, emails, syncJobs, tasks>>
    /\ Frame

\* line 153-154
ResumedRecord(r) == [r EXCEPT !.status = "RUNNING", !.resumed = TRUE]

\* line 153-167: save() writes status, then performSync is called with the
\* default batch parameters and registered in syncJobs
ResumeSave(c) ==
    /\ calls[c].op = "resume"
    /\ calls[c].pc = "save"
    /\ FreeTasks # {}
    /\ LET a == calls[c].acc
           t == LowestOf(FreeTasks)
       IN /\ syncStatus' = [syncStatus EXCEPT ![a] =
                                 IF @.exists THEN ResumedRecord(@) ELSE @]
          /\ tasks' = [tasks EXCEPT ![t] =
                          NewTask(a, DefaultBatchSize, UnlimitedEmails, TRUE)]
          /\ syncJobs' = [syncJobs EXCEPT ![a] = t]
          /\ response' = Reply("resume", a, "ok", "RUNNING")
    /\ calls' = [calls EXCEPT ![c] = NoCall]
    /\ UNCHANGED <<accounts, emails>>
    /\ Spawn

\* -------------------------------------------------------------- stopSync
\* line 179-185
StopSync(a) ==
    /\ FreeCalls # {}
    /\ LET c == LowestOf(FreeCalls)
       IN IF ~syncStatus[a].exists
          THEN /\ response' = Reply("stop", a, "NotFound", "none")
               /\ UNCHANGED calls
          ELSE /\ calls' = [calls EXCEPT ![c] = NewCall("stop", a, "save", 0, 0, <<>>)]
               /\ NoReply
    /\ UNCHANGED <<accounts, syncStatus, emails, syncJobs, tasks>>
    /\ Issue

\* line 184-186
StoppedRecord(r) ==
    [r EXCEPT !.status = "IDLE", !.completedAt = TRUE, !.pausedAt = -1, !.resumed = FALSE]

\* line 184-196: save() writes status and completedAt, then the cancel
StopSave(c) ==
    /\ calls[c].op = "stop"
    /\ calls[c].pc = "save"
    /\ LET a == calls[c].acc
       IN /\ syncStatus' = [syncStatus EXCEPT ![a] =
                                 IF @.exists THEN StoppedRecord(@) ELSE @]
          /\ response' = IF CancelThrows(syncJobs[a])
                         THEN Reply("stop", a, "TypeError", "none")
                         ELSE Reply("stop", a, "ok", "IDLE")
    /\ calls' = [calls EXCEPT ![c] = NoCall]
    /\ UNCHANGED <<accounts, emails, syncJobs, tasks>>
    /\ Frame

\* ------------------------------------------- startAllSync, scheduledSync
\* A loop over no account returns at once; otherwise the first startSync
\* (startAll) or the first status lookup (scheduled) is the next await.
BeginLoop(op, queue, firstPc) ==
    /\ FreeCalls # {}
    /\ issued + Len(queue) <= MaxOps
    /\ issued' = issued + Len(queue)
    /\ IF queue = <<>>
       THEN /\ response' = ReplyAll(op, <<>>)
            /\ UNCHANGED calls
       ELSE /\ calls' = [calls EXCEPT ![LowestOf(FreeCalls)] =
                           NewCall(op, Head(queue), firstPc, DefaultBatchSize,
                                   UnlimitedEmails, queue)]
            /\ NoReply
    /\ UNCHANGED <<accounts, syncStatus, emails, syncJobs, tasks>>
    /\ UNCHANGED <<server, started>>
    /\ UNCHANGED imapVars /\ UNCHANGED unitVars
    /\ Settled

\* line 250
StartAllSync ==
    /\ \A c \in CallIds : calls[c].op # "startAll"
    /\ BeginLoop("startAll", ActiveAccounts, "findAccount")

\* line 493-496
ScheduledSync ==
    /\ \A c \in CallIds : calls[c].op # "scheduled"
    /\ BeginLoop("scheduled", ActiveConnectedAccounts, "schedStatus")

\* line 499-502: the status lookup that precedes each scheduled start
ScheduledFindStatus(c) ==
    /\ calls[c].op = "scheduled"
    /\ calls[c].pc = "schedStatus"
    /\ IF ScheduledSkips(syncStatus[calls[c].acc])
       THEN LET rest == Tail(calls[c].rest)
            IN IF rest = <<>>
               THEN /\ calls' = [calls EXCEPT ![c] = NoCall]
                    /\ response' = ReplyAll("scheduled", <<>>)
               ELSE /\ calls' = [calls EXCEPT ![c].acc = Head(rest), ![c].rest = rest]
                    /\ NoReply
       ELSE /\ calls' = [calls EXCEPT ![c].pc = "findAccount"]
            /\ NoReply
    /\ UNCHANGED <<accounts, syncStatus, emails, syncJobs, tasks>>
    /\ Frame

\* ---------------------------------------------------------- performSync
\* findOneAndUpdate without upsert: no document, no change
DbUpdate(a, new) ==
    IF syncStatus[a].exists THEN [syncStatus EXCEPT ![a] = new] ELSE syncStatus

\* ImapService.getEmails lines 163-170: the sequence numbers fetched
FetchStart(total, limit, offset) == Max(1, total - offset - limit + 1)
\* the window's end computed without the offset
FetchEndIgnoringOffset(total, offset) == total
FetchEnd(total, offset) == total - offset
FetchWindow(msgs, limit, offset) ==
    LET start == FetchStart(Len(msgs), limit, offset)
        end == FetchEnd(Len(msgs), offset)
    IN IF start > end THEN <<>> ELSE SubSeq(msgs, start, end)

\* line 342: emails.slice(i, i + batchSize)
Batch(rec) == SubSeq(rec.fetched, rec.i + 1, Min(rec.i + rec.batchSize, Len(rec.fetched)))

\* line 440-447: the lookup that makes a stored message be skipped
AlreadyStored(a, m) == emails[a][m] > 0
\* the Email collection without its unique index
NoUniqueIndex(a, m) == FALSE

\* unique index { accountId, messageId } of the Email collection
DuplicateKey(a, m) == emails[a][m] > 0
\* line 476: save() throws on a validation error or on a duplicate key
SaveFails(a, m) == m \in server.invalid \/ DuplicateKey(a, m)
\* line 375
ReachedCap(rec) == rec.maxEmails > 0 /\ rec.totalProcessed >= rec.maxEmails

\* the completion guard inverted: COMPLETED is written only when cancelled
AfterLoopInverted(rec) ==
    LET done == [rec EXCEPT !.fi = 0, !.fetched = <<>>, !.i = 0, !.j = 0,
                            !.success = 0, !.failed = 0]
    IN IF rec.isCancelled THEN [done EXCEPT !.pc = "writeCompleted"]
       ELSE [done EXCEPT !.pc = "return"]

\* line 386-406: after the folder loop
AfterLoop(rec) ==
    LET done == [rec EXCEPT !.fi = 0, !.fetched = <<>>, !.i = 0, !.j = 0,
                            !.success = 0, !.failed = 0]
    IN IF ~rec.isCancelled THEN [done EXCEPT !.pc = "writeCompleted"]
       ELSE [done EXCEPT !.pc = "return"]

\* line 319-327: the head of the folder loop for the k-th folder
EnterFolder(rec, k) ==
    IF k > Len(rec.foldersToSync) \/ rec.isCancelled
    THEN AfterLoop(rec)
    ELSE [rec EXCEPT !.fi = k, !.pc = "getEmails", !.fetched = <<>>,
                     !.i = 0, !.j = 0, !.success = 0, !.failed = 0]

\* line 339-343: the head of the batch loop at offset i
BatchLoop(rec, i) ==
    IF i < Len(rec.fetched) /\ ~rec.isCancelled
    THEN [rec EXCEPT !.i = i, !.j = 1, !.success = 0, !.failed = 0, !.pc = "findEmail"]
    ELSE EnterFolder(rec, rec.fi + 1)

\* line 437, 482-484 and 345-346: next message of the batch, or its end
NextEmail(rec) ==
    IF rec.j < Len(Batch(rec))
    THEN [rec EXCEPT !.j = rec.j + 1, !.pc = "findEmail"]
    ELSE [rec EXCEPT !.totalProcessed = @ + rec.success,
                     !.totalFailed = @ + rec.failed, !.pc = "updateProgress"]

\* A run goes on, or returns: line 421-423, finally syncJobs.delete
Continue(t, rec) ==
    IF rec.pc = "return"
    THEN /\ tasks' = [tasks EXCEPT ![t] = NoTask]
         /\ syncJobs' = [syncJobs EXCEPT ![rec.acc] = NoJob]
    ELSE /\ tasks' = [tasks EXCEPT ![t] = rec]
         /\ UNCHANGED syncJobs

At(t, pc) == tasks[t] # NoTask /\ tasks[t].pc = pc

\* line 298-316: the session is acquired and the folders are listed (two IMAP
\* exchanges that touch no state of the service); the progress reset is next
ListFoldersOk(t) ==
    /\ At(t, "listFolders")
    /\ tasks' = [tasks EXCEPT ![t].foldersToSync = FolderOrder,
                              ![t].pc = "resetProgress"]
    /\ UNCHANGED <<accounts, syncStatus, emails, syncJobs, calls>>
    /\ NoReply
    /\ Frame

\* line 298, 407: getConnection rejects (the connect or the login failed)
GetConnectionFails(t) ==
    /\ At(t, "listFolders")
    /\ tasks' = [tasks EXCEPT ![t].pc = "writeError", ![t].error = "connect"]
    /\ UNCHANGED <<accounts, syncStatus, emails, syncJobs, calls>>
    /\ NoReply
    /\ Frame

\* line 301, 407: listFolders rejects
ListFoldersFails(t) ==
    /\ At(t, "listFolders")
    /\ tasks' = [tasks EXCEPT ![t].pc = "writeError", ![t].error = "list"]
    /\ UNCHANGED <<accounts, syncStatus, emails, syncJobs, calls>>
    /\ NoReply
    /\ Frame

\* line 308-316
ResetRecord(rec) ==
    [rec EXCEPT !.processedEmails = 0, !.failedEmails = 0,
                !.folderProgress = [f \in FolderNames |-> NoProgress]]

ResetProgress(t) ==
    /\ At(t, "resetProgress")
    /\ syncStatus' = DbUpdate(tasks[t].acc, ResetRecord(syncStatus[tasks[t].acc]))
    /\ Continue(t, EnterFolder(tasks[t], 1))
    /\ UNCHANGED <<accounts, emails, calls>>
    /\ NoReply
    /\ Frame

CurrentFolder(rec) == rec.foldersToSync[rec.fi]

\* line 324-343: currentFolder is written, the folder is fetched in one call
\* (limit = batchSize, offset = 0), totalEmails is incremented and the batch
\* loop starts
GetEmailsOk(t) ==
    /\ At(t, "getEmails")
    /\ LET rec == tasks[t]
           got == FetchWindow(server.mailbox[rec.acc][CurrentFolder(rec)], rec.batchSize, 0)
       IN Continue(t, BatchLoop([rec EXCEPT !.fetched = got], 0))
    /\ UNCHANGED <<accounts, syncStatus, emails, calls>>
    /\ NoReply
    /\ Frame

\* a folder loop without its own catch: the error reaches the outer catch
AbortOnFolderError(rec) == [rec EXCEPT !.pc = "writeError"]

\* line 380-384: the folder-level catch counts one failure and the loop goes
\* on with the next folder
AfterFolderError(rec) ==
    EnterFolder([rec EXCEPT !.totalFailed = @ + 1], rec.fi + 1)

\* line 330, 380: getEmails (or the write of currentFolder) throws
GetEmailsFails(t) ==
    /\ At(t, "getEmails")
    /\ Continue(t, AfterFolderError(tasks[t]))
    /\ UNCHANGED <<accounts, syncStatus, emails, calls>>
    /\ NoReply
    /\ Frame

\* line 440-447
FindEmail(t) ==
    /\ At(t, "findEmail")
    /\ LET rec == tasks[t]
           m == Batch(rec)[rec.j]
       IN tasks' = [tasks EXCEPT ![t] =
              IF AlreadyStored(rec.acc, m) THEN NextEmail(rec)
              ELSE [rec EXCEPT !.pc = "saveEmail"]]
    /\ UNCHANGED <<accounts, syncStatus, emails, syncJobs, calls>>
    /\ NoReply
    /\ Frame

\* line 450-481: analysis, then save(); a throw is counted as failed
SaveEmail(t) ==
    /\ At(t, "saveEmail")
    /\ LET rec == tasks[t]
           m == Batch(rec)[rec.j]
       IN IF SaveFails(rec.acc, m)
          THEN /\ tasks' = [tasks EXCEPT ![t] = NextEmail([rec EXCEPT !.failed = @ + 1])]
               /\ UNCHANGED emails
          ELSE /\ tasks' = [tasks EXCEPT ![t] = NextEmail([rec EXCEPT !.success = @ + 1])]
               /\ emails' = [emails EXCEPT ![rec.acc][m] = @ + 1]
    /\ UNCHANGED <<accounts, syncStatus, syncJobs, calls>>
    /\ NoReply
    /\ Frame

\* line 349-358
ProgressRecord(r, rec) ==
    [r EXCEPT !.processedEmails = @ + rec.success, !.failedEmails = @ + rec.failed,
              !.lastProcessedMessageId = Batch(rec)[Len(Batch(rec))]]

UpdateProgress(t) ==
    /\ At(t, "updateProgress")
    /\ syncStatus' = DbUpdate(tasks[t].acc, ProgressRecord(syncStatus[tasks[t].acc], tasks[t]))
    /\ tasks' = [tasks EXCEPT ![t].pc = "updateFolderProgress"]
    /\ UNCHANGED <<accounts, emails, syncJobs, calls>>
    /\ NoReply
    /\ Frame

\* line 361-372
FolderProgressRecord(r, rec) ==
    [r EXCEPT !.folderProgress[CurrentFolder(rec)] =
        [total |-> Len(rec.fetched),
         processed |-> Min(rec.i + rec.batchSize, Len(rec.fetched)),
         failed |-> rec.totalFailed]]

\* line 361-379: the folder progress write, then the cap check
UpdateFolderProgress(t) ==
    /\ At(t, "updateFolderProgress")
    /\ syncStatus' = DbUpdate(tasks[t].acc, FolderProgressRecord(syncStatus[tasks[t].acc], tasks[t]))
    /\ LET rec == tasks[t]
       IN IF ReachedCap(rec)
          THEN Continue(t, EnterFolder([rec EXCEPT !.isCancelled = TRUE], rec.fi + 1))
          ELSE Continue(t, BatchLoop(rec, rec.i + rec.batchSize))
    /\ UNCHANGED <<accounts, emails, calls>>
    /\ NoReply
    /\ Frame

\* line 388-396
CompletedRecord(r, rec) ==
    [r EXCEPT !.status = "COMPLETED", !.completedAt = TRUE,
              !.processedEmails = rec.totalProcessed, !.failedEmails = rec.totalFailed]

WriteCompleted(t) ==
    /\ At(t, "writeCompleted")
    /\ syncStatus' = DbUpdate(tasks[t].acc, CompletedRecord(syncStatus[tasks[t].acc], tasks[t]))
    /\ tasks' = [tasks EXCEPT ![t].pc = "updateAccount"]
    /\ UNCHANGED <<accounts, emails, syncJobs, calls>>
    /\ NoReply
    /\ Frame

\* line 399-406, 421-423
UpdateAccount(t) ==
    /\ At(t, "updateAccount")
    /\ accounts' = [accounts EXCEPT ![tasks[t].acc] =
           IF @.exists
           THEN [@ EXCEPT !.lastSyncAt = TRUE]
           ELSE @]
    /\ Continue(t, [tasks[t] EXCEPT !.pc = "return"])
    /\ UNCHANGED <<syncStatus, emails, calls>>
    /\ NoReply
    /\ Frame

\* line 411-418
ErrorRecord(r, rec) ==
    [r EXCEPT !.status = "ERROR", !.errorMessage = rec.error, !.completedAt = TRUE]

\* line 407-423: the catch writes ERROR and rethrows, which rejects the
\* promise performSync returned. startSync (85-92) and resumeSync (157-164)
\* only store that promise in syncJobs: nothing awaits it or attaches a
\* catch to it.
WriteError(t) ==
    /\ At(t, "writeError")
    /\ syncStatus' = DbUpdate(tasks[t].acc, ErrorRecord(syncStatus[tasks[t].acc], tasks[t]))
    /\ Continue(t, [tasks[t] EXCEPT !.pc = "return"])
    /\ unhandled' = tasks[t].acc
    /\ UNCHANGED <<accounts, emails, calls>>
    /\ NoReply
    /\ UNCHANGED <<server, issued, started>>
    /\ UNCHANGED imapVars /\ UNCHANGED unitVars

\* ----------------------------------------------------------------- Next
Next ==
    \/ \E a \in AccountIds, bs \in BatchSizes, me \in MaxEmailsOpts : StartSync(a, bs, me)
    \/ \E a \in AccountIds : PauseSync(a)
    \/ \E a \in AccountIds : ResumeSync(a)
    \/ \E a \in AccountIds : StopSync(a)
    \/ StartAllSync
    \/ ScheduledSync
    \/ \E c \in CallIds : StartFindAccount(c)
    \/ \E c \in CallIds : StartFindStatus(c)
    \/ \E c \in CallIds : StartUpsert(c)
    \/ \E c \in CallIds : PauseSave(c)
    \/ \E c \in CallIds : ResumeFindAccount(c)
    \/ \E c \in CallIds : ResumeSave(c)
    \/ \E c \in CallIds : StopSave(c)
    \/ \E c \in CallIds : ScheduledFindStatus(c)
    \/ \E t \in TaskIds : ListFoldersOk(t)
    \/ \E t \in TaskIds : GetConnectionFails(t)
    \/ \E t \in TaskIds : ListFoldersFails(t)
    \/ \E t \in TaskIds : ResetProgress(t)
    \/ \E t \in TaskIds : GetEmailsOk(t)
    \/ \E t \in TaskIds : GetEmailsFails(t)
    \/ \E t \in TaskIds : FindEmail(t)
    \/ \E t \in TaskIds : SaveEmail(t)
    \/ \E t \in TaskIds : UpdateProgress(t)
    \/ \E t \in TaskIds : UpdateFolderProgress(t)
    \/ \E t \in TaskIds : WriteCompleted(t)
    \/ \E t \in TaskIds : UpdateAccount(t)
    \/ \E t \in TaskIds : WriteError(t)

Spec == Init /\ [][Next]_vars

\* The same service against IMAP servers on which every call succeeds.
NextReliable ==
    \/ \E a \in AccountIds, bs \in BatchSizes, me \in MaxEmailsOpts : StartSync(a, bs, me)
    \/ \E a \in AccountIds : PauseSync(a)
    \/ \E a \in AccountIds : ResumeSync(a)
    \/ \E a \in AccountIds : StopSync(a)
    \/ StartAllSync
    \/ ScheduledSync
    \/ \E c \in CallIds : StartFindAccount(c)
    \/ \E c \in CallIds : StartFindStatus(c)
    \/ \E c \in CallIds : StartUpsert(c)
    \/ \E c \in CallIds : PauseSave(c)
    \/ \E c \in CallIds : ResumeFindAccount(c)
    \/ \E c \in CallIds : ResumeSave(c)
    \/ \E c \in CallIds : StopSave(c)
    \/ \E c \in CallIds : ScheduledFindStatus(c)
    \/ \E t \in TaskIds : ListFoldersOk(t)
    \/ \E t \in TaskIds : ResetProgress(t)
    \/ \E t \in TaskIds : GetEmailsOk(t)
    \/ \E t \in TaskIds : FindEmail(t)
    \/ \E t \in TaskIds : SaveEmail(t)
    \/ \E t \in TaskIds : UpdateProgress(t)
    \/ \E t \in TaskIds : UpdateFolderProgress(t)
    \/ \E t \in TaskIds : WriteCompleted(t)
    \/ \E t \in TaskIds : UpdateAccount(t)

SpecReliable == Init /\ [][NextReliable]_vars

\* One step of the run t. Every await of performSync is a database or IMAP
\* call; when each call returns, the event loop resumes the run, so a run
\* that can step eventually does.
RunStep(t) ==
    \/ ListFoldersOk(t) \/ ResetProgress(t) \/ GetEmailsOk(t) \/ FindEmail(t)
    \/ SaveEmail(t) \/ UpdateProgress(t) \/ UpdateFolderProgress(t)
    \/ WriteCompleted(t) \/ UpdateAccount(t)
SpecReliableFair == SpecReliable /\ \A t \in TaskIds : WF_vars(RunStep(t))

\* ------------------------------------------------------------ ImapService
\* line 29-34 and 105-110: a cached session is handed out only if its state
\* is 'authenticated'
IsCached(k) == connectionPool[k] # NoSession
\* getConnection without its state check
AnyCachedSession(s) == TRUE
IsUsable(s) == sessions[s].state = "authenticated"
FreeSessions == {s \in SessionIds : sessions[s] = NoImap}
Live(s) == sessions[s].state \in {"connecting", "authenticated"}

\* getConnection (102-113) and createConnection (25-97) up to imap.connect():
\* the cached session, or a new Imap with its three handlers
GetConnection(k) ==
    /\ IF IsCached(k) /\ IsUsable(connectionPool[k])
       THEN /\ acquired' = connectionPool[k]
            /\ UNCHANGED sessions
       ELSE /\ FreeSessions # {}
            /\ sessions' = [sessions EXCEPT ![LowestOf(FreeSessions)] =
                                [NoImap EXCEPT !.key = k, !.state = "connecting"]]
            /\ acquired' = NoSession
    /\ UNCHANGED connectionPool
    /\ UNCHANGED serviceVars /\ UNCHANGED unitVars

\* line 78-82: 'ready'
SessionReady(s) ==
    /\ sessions[s].state = "connecting"
    /\ sessions' = [sessions EXCEPT ![s].state = "authenticated"]
    /\ connectionPool' = [connectionPool EXCEPT ![sessions[s].key] = s]
    /\ acquired' = s
    /\ UNCHANGED serviceVars /\ UNCHANGED unitVars

\* line 84-88: 'error', handled once: the connect or the login fails, or the
\* connection is lost; the socket is closed
SessionError(s) ==
    /\ Live(s)
    /\ sessions' = [sessions EXCEPT ![s].state = "disconnected", ![s].errorHandled = TRUE]
    /\ connectionPool' = IF sessions[s].errorHandled THEN connectionPool
                          ELSE [connectionPool EXCEPT ![sessions[s].key] = NoSession]
    /\ acquired' = NoSession
    /\ UNCHANGED serviceVars /\ UNCHANGED unitVars

\* line 90-93: 'end', the server closed the connection
SessionEnd(s) ==
    /\ Live(s)
    /\ sessions' = [sessions EXCEPT ![s].state = "disconnected", ![s].endHandled = TRUE]
    /\ connectionPool' = IF sessions[s].endHandled THEN connectionPool
                          ELSE [connectionPool EXCEPT ![sessions[s].key] = NoSession]
    /\ acquired' = NoSession
    /\ UNCHANGED serviceVars /\ UNCHANGED unitVars

\* 'close': the socket of a session is gone without 'end' or 'error' having
\* been emitted; createConnection registers no handler for it
SessionClose(s) ==
    /\ Live(s)
    /\ sessions' = [sessions EXCEPT ![s].state = "disconnected"]
    /\ acquired' = NoSession
    /\ UNCHANGED connectionPool
    /\ UNCHANGED serviceVars /\ UNCHANGED unitVars

\* closeConnection, line 232-240
CloseConnection(k) ==
    /\ IsCached(k)
    /\ sessions' = [sessions EXCEPT ![connectionPool[k]].state = "disconnected"]
    /\ connectionPool' = [connectionPool EXCEPT ![k] = NoSession]
    /\ acquired' = NoSession
    /\ UNCHANGED serviceVars /\ UNCHANGED unitVars

NextImap ==
    \/ \E k \in AccountIds : GetConnection(k)
    \/ \E s \in SessionIds : SessionReady(s)
    \/ \E s \in SessionIds : SessionError(s)
    \/ \E s \in SessionIds : SessionEnd(s)
    \/ \E s \in SessionIds : SessionClose(s)
    \/ \E k \in AccountIds : CloseConnection(k)

SpecImap == Init /\ [][NextImap]_vars

\* ---------------------------------------------- ImapService.getEmails alone
\* One call getEmails(account, folder, limit, offset) on a folder of `total`
\* messages, the message with sequence number n being n.
Folder(total) == [n \in 1..total |-> n]

InitFetch ==
    /\ server = [mailbox |-> Mailboxes, invalid |-> {}]
    /\ InitProgram
    /\ InitImap
    /\ fetchCall \in [pc : {"openBox"}, total : 0..MaxTotal, limit : 1..MaxLimit,
                       offset : 0..MaxOffset, result : {<<>>}]
    /\ analysis = NoAnalysis
    /\ probe = NoProbe

\* line 157-176: the box is open, the range is computed and fetched
GetEmailsFetch ==
    /\ fetchCall.pc = "openBox"
    /\ fetchCall' = [fetchCall EXCEPT
           !.pc = "resolved",
           !.result = FetchWindow(Folder(fetchCall.total), fetchCall.limit, fetchCall.offset)]
    /\ UNCHANGED serviceVars /\ UNCHANGED imapVars
    /\ UNCHANGED <<analysis, probe>>

SpecFetch == InitFetch /\ [][GetEmailsFetch]_vars

\* Runs over the deep mailbox of a1, every IMAP call succeeding.
InitDeep ==
    /\ server = [mailbox |-> DeepMailboxes, invalid |-> {}]
    /\ InitProgram
    /\ InitImap
    /\ InitUnits

NextDeep ==
    \/ \E bs \in SmallBatchSizes, me \in MaxEmailsOpts : StartSync("a1", bs, me)
    \/ \E c \in CallIds : StartFindStatus(c)
    \/ \E c \in CallIds : StartUpsert(c)
    \/ \E t \in TaskIds : ListFoldersOk(t)
    \/ \E t \in TaskIds : ResetProgress(t)
    \/ \E t \in TaskIds : GetEmailsOk(t)
    \/ \E t \in TaskIds : FindEmail(t)
    \/ \E t \in TaskIds : SaveEmail(t)
    \/ \E t \in TaskIds : UpdateProgress(t)
    \/ \E t \in TaskIds : UpdateFolderProgress(t)
    \/ \E t \in TaskIds : WriteCompleted(t)
    \/ \E t \in TaskIds : UpdateAccount(t)

SpecDeep == InitDeep /\ [][NextDeep]_vars

\* Runs over a mailbox of a1 with messages in both folders, some of which
\* cannot be saved, and with folders whose fetch may throw.
FaultyMailboxes ==
    [a \in AccountIds |->
        IF a = "a1" THEN [INBOX |-> <<1, 2>>, Sent |-> <<3>>]
        ELSE [INBOX |-> <<>>, Sent |-> <<>>]]

InitFaulty ==
    /\ \E invalid \in {{}, {2}} :
          server = [mailbox |-> FaultyMailboxes, invalid |-> invalid]
    /\ InitProgram
    /\ InitImap
    /\ InitUnits

NextFaulty ==
    \/ NextDeep
    \/ \E t \in TaskIds : GetEmailsFails(t)

SpecFaulty == InitFaulty /\ [][NextFaulty]_vars

\* ------------------------------------ EmailAnalyticsService.analyzeEmail
\* A string is the sequence of its pieces; a piece is one of the characters
\* < > @ . and the blank, or a run of other characters.  A pattern of
\* espPatterns is the set of its alternatives, each a string; none of them
\* is anchored.
espPatterns == <<
    [name |-> "Gmail", alts |-> {<<"googlemail", ".", "com">>, <<"gmail", ".", "com">>,
                                 <<"google", ".", "com">>}],
    [name |-> "Outlook", alts |-> {<<"outlook", ".", "com">>, <<"hotmail", ".", "com">>,
                                   <<"live", ".", "com">>, <<"msn", ".", "com">>}],
    [name |-> "Yahoo", alts |-> {<<"yahoo", ".", "com">>, <<"yahoo", ".", "co", ".", "uk">>,
                                 <<"ymail", ".", "com">>}],
    [name |-> "SendGrid", alts |-> {<<"sendgrid", ".", "net">>, <<"sendgrid", ".", "com">>}],
    [name |-> "Mailgun", alts |-> {<<"mailgun", ".", "net">>, <<"mailgun", ".", "com">>}],
    [name |-> "Amazon SES", alts |-> {<<"amazonaws", ".", "com">>,
                                      <<"ses", ".", "amazonaws", ".", "com">>}],
    [name |-> "Mandrill", alts |-> {<<"mandrillapp", ".", "com">>}],
    [name |-> "Postmark", alts |-> {<<"postmarkapp", ".", "com">>}],
    [name |-> "Mailchimp", alts |-> {<<"mailchimp", ".", "com">>, <<"list-manage", ".", "com">>}],
    [name |-> "Constant Contact", alts |-> {<<"constantcontact", ".", "com">>}],
    [name |-> "AWeber", alts |-> {<<"aweber", ".", "com">>}],
    [name |-> "GetResponse", alts |-> {<<"getresponse", ".", "com">>}],
    [name |-> "Campaign Monitor", alts |-> {<<"campaignmonitor", ".", "com">>}],
    [name |-> "ConvertKit", alts |-> {<<"convertkit", ".", "com">>}],
    [name |-> "ActiveCampaign", alts |-> {<<"activecampaign", ".", "com">>}],
    [name |-> "HubSpot", alts |-> {<<"hubspot", ".", "com">>}],
    [name |-> "Pardot", alts |-> {<<"pardot", ".", "com">>}],
    [name |-> "Marketo", alts |-> {<<"marketo", ".", "com">>}],
    [name |-> "Salesforce", alts |-> {<<"salesforce", ".", "com">>}],
    [name |-> "Zendesk", alts |-> {<<"zendesk", ".", "com">>}] >>

\* the domains of the senders
Domains == {
    <<"gmail", ".", "com">>, <<"GMAIL", ".", "com">>, <<"mail", ".", "google", ".", "com">>,
    <<"hotmail", ".", "com">>, <<"yahoo", ".", "co", ".", "uk">>,
    <<"sendgrid", ".", "net">>, <<"ses", ".", "amazonaws", ".", "com">>,
    <<"hubspot", ".", "com", ".", "sendgrid", ".", "net">>,
    <<"list-manage", ".", "com">>, <<"salesforce", ".", "com">>,
    <<"zendesk", ".", "com">>, <<"example", ".", "org">>, <<"gmail", ".", "org">> }
Locals == {"alice", "bob"}
Forms == {"bare", "angle", "named"}

\* the from header of a message of local@d in one of the three forms
Header(form, local, d) ==
    CASE form = "bare" -> <<local, "@">> \o d
      [] form = "angle" -> <<"<", local, "@">> \o d \o <<">">>
      [] form = "named" -> <<"Name", " ", "<", local, "@">> \o d \o <<">">>

\* null, undefined and the empty string: the values line 112 and 118 skip
Null == <<>>

\* line 110-111: from.match(/<(.+)>|(.+)/), then group 1 or else group 2.
\* The search starts at the first character, where the second alternative
\* matches whatever is there, so the first alternative is taken only by a
\* header that begins with "<" and has a ">" at least two pieces later, its
\* (.+) running up to the last such ">".
EmailAddress(from) ==
    LET closers == {j \in 3..Len(from) : from[j] = ">"}
    IN IF from # <<>> /\ from[1] = "<" /\ closers # {}
       THEN SubSeq(from, 2, (CHOOSE j \in closers : \A k \in closers : k <= j) - 1)
       ELSE from

\* line 113: emailAddress.split('@')[1], what lies between the first "@" and
\* the second one or the end
SplitAt1(s) ==
    LET ats == {i \in 1..Len(s) : s[i] = "@"}
    IN IF ats = {} THEN Null
       ELSE LET first == CHOOSE i \in ats : \A k \in ats : i <= k
                later == {i \in ats : i > first}
                stop == IF later = {} THEN Len(s) + 1
                        ELSE CHOOSE i \in later : \A k \in later : i <= k
            IN SubSeq(s, first + 1, stop - 1)

\* line 162: domain.toLowerCase()
ToLowerCase(s) == [i \in 1..Len(s) |-> IF s[i] = "GMAIL" THEN "gmail" ELSE s[i]]

\* line 165: pattern.test(lowerDomain), an alternative occurring anywhere
Test(pattern, s) ==
    \E p \in pattern.alts :
        \E i \in 0..(Len(s) - Len(p)) : SubSeq(s, i + 1, i + Len(p)) = p

\* line 179-204
categorizeESP(espName) ==
    CASE espName \in {"Gmail", "Outlook", "Yahoo"} -> "Webmail"
      [] espName \in {"SendGrid", "Mailgun", "Amazon SES", "Mandrill", "Postmark"}
            -> "Transactional"
      [] espName \in {"Mailchimp", "Constant Contact", "AWeber", "GetResponse",
                      "Campaign Monitor", "ConvertKit", "ActiveCampaign", "HubSpot",
                      "Pardot", "Marketo", "Salesforce"} -> "Marketing"
      [] espName = "Zendesk" -> "Support"
      [] OTHER -> "Other"

\* line 164-173: the entries in their order, the first that matches wins
RECURSIVE DetectFrom(_, _)
DetectFrom(i, lowerDomain) ==
    IF i > Len(espPatterns)
    THEN [type |-> "Custom", name |-> "Custom/Unknown"]
    ELSE IF Test(espPatterns[i], lowerDomain)
         THEN [type |-> categorizeESP(espPatterns[i].name), name |-> espPatterns[i].name]
         ELSE DetectFrom(i + 1, lowerDomain)
detectESP(domain) == DetectFrom(1, ToLowerCase(domain))

\* One call analyzeEmail(emailData) with emailData.from the header of a
\* message of local@domain.
InitEsp ==
    /\ server = [mailbox |-> Mailboxes, invalid |-> {}]
    /\ InitProgram
    /\ InitImap
    /\ fetchCall = NoFetch
    /\ \E form \in Forms, local \in Locals, d \in Domains :
          analysis = [pc |-> "called", form |-> form, local |-> local, domain |-> d,
                      from |-> Header(form, local, d),
                      sendingDomain |-> Null, espType |-> "Unknown", espName |-> "Unknown",
                      sendingServer |-> Null, probed |-> FALSE]
    /\ probe = NoProbe

\* imap.service.ts 190-213: the record getEmails builds for a message; it
\* has no sendingDomain property
EmailData(from) == [from |-> from, sendingDomain |-> Null]

\* line 209-216
extractSendingServer(emailData) ==
    IF emailData.sendingDomain # Null
    THEN <<"mail", ".">> \o emailData.sendingDomain
    ELSE Null

\* line 96-141; `probed` says that analyzeTLS and checkOpenRelay were called
\* (line 133-139)
AnalyzeEmail ==
    /\ analysis.pc = "called"
    /\ LET emailAddress == IF analysis.from # Null THEN EmailAddress(analysis.from) ELSE Null
           sendingDomain == IF emailAddress # Null THEN SplitAt1(emailAddress) ELSE Null
           espDetection == IF sendingDomain # Null THEN detectESP(sendingDomain)
                           ELSE [type |-> "Unknown", name |-> "Unknown"]
           sendingServer == extractSendingServer(EmailData(analysis.from))
       IN analysis' = [analysis EXCEPT !.pc = "returned",
                                       !.sendingDomain = sendingDomain,
                                       !.espType = espDetection.type,
                                       !.espName = espDetection.name,
                                       !.sendingServer = sendingServer,
                                       !.probed = (sendingServer # Null)]
    /\ UNCHANGED serviceVars /\ UNCHANGED imapVars
    /\ UNCHANGED <<fetchCall, probe>>

SpecEsp == InitEsp /\ [][AnalyzeEmail]_vars

\* ---------------------- EmailAnalyticsService.analyzeTLS, checkOpenRelay
\* The two probes of one analysis (line 133-139), one after the other, and
\* the storing of the message that follows the analysis.  What the probed
\* server does on port 587 and on port 25 is fixed at the start.
TlsServers == {"refused", "error", "silent", "closed", "valid", "invalid"}
RelayServers == {"refused", "error", "silent", "closed", "open", "auth", "greeting"}

\* the first chunk a replying server sends on port 25
Response(behaviour) ==
    CASE behaviour = "open" -> [has250 |-> TRUE, hasAUTH |-> FALSE]
      [] behaviour = "auth" -> [has250 |-> TRUE, hasAUTH |-> TRUE]
      [] behaviour = "greeting" -> [has250 |-> FALSE, hasAUTH |-> FALSE]

\* line 253-257, 261-265
NegativeTls == [supportsTLS |-> FALSE, hasValidCertificate |-> FALSE,
                certificateDetails |-> "null"]

InitProbe ==
    /\ server = [mailbox |-> Mailboxes, invalid |-> {}]
    /\ InitProgram
    /\ InitImap
    /\ fetchCall = NoFetch
    /\ analysis = NoAnalysis
    /\ \E t \in TlsServers, r \in RelayServers :
          probe = [pc |-> "tls", tlsServer |-> t, relayServer |-> r,
                   tls |-> NegativeTls, isOpenRelay |-> FALSE]

\* line 135-138: the TLS probe has resolved, its result is copied and the
\* relay probe is started
TlsResolved(result) ==
    probe' = [probe EXCEPT !.pc = "relay", !.tls = result]

\* line 233-250: the handshake has completed
TlsSecureConnect ==
    /\ probe.pc = "tls"
    /\ probe.tlsServer \in {"valid", "invalid"}
    /\ TlsResolved([supportsTLS |-> TRUE,
                    hasValidCertificate |-> (probe.tlsServer = "valid"),
                    certificateDetails |-> "cert"])
    /\ UNCHANGED serviceVars /\ UNCHANGED imapVars
    /\ UNCHANGED <<fetchCall, analysis>>

\* line 252-258: connection refused, a socket error, or the connection closed
\* before the handshake completed, which a TLS socket reports as an error
TlsError ==
    /\ probe.pc = "tls"
    /\ probe.tlsServer \in {"refused", "error", "closed"}
    /\ TlsResolved(NegativeTls)
    /\ UNCHANGED serviceVars /\ UNCHANGED imapVars
    /\ UNCHANGED <<fetchCall, analysis>>

\* line 260-267: nothing happened on the socket for 5000 ms
TlsTimeout ==
    /\ probe.pc = "tls"
    /\ probe.tlsServer = "silent"
    /\ TlsResolved(NegativeTls)
    /\ UNCHANGED serviceVars /\ UNCHANGED imapVars
    /\ UNCHANGED <<fetchCall, analysis>>

\* line 138-141: the relay probe has resolved and analyzeEmail returns
RelayResolved(result) ==
    probe' = [probe EXCEPT !.pc = "returned", !.isOpenRelay = result]

\* line 292-294: the connection is made and EHLO is written
RelayConnect ==
    /\ probe.pc = "relay"
    /\ probe.relayServer \notin {"refused", "error"}
    /\ probe' = [probe EXCEPT !.pc = "relayConnected"]
    /\ UNCHANGED serviceVars /\ UNCHANGED imapVars
    /\ UNCHANGED <<fetchCall, analysis>>

\* line 296-302
RelayData ==
    /\ probe.pc = "relayConnected"
    /\ probe.relayServer \in {"open", "auth", "greeting"}
    /\ LET data == Response(probe.relayServer)
       IN RelayResolved(data.has250 /\ ~data.hasAUTH)
    /\ UNCHANGED serviceVars /\ UNCHANGED imapVars
    /\ UNCHANGED <<fetchCall, analysis>>

\* line 304-306
RelayError ==
    /\ probe.pc = "relay"
    /\ probe.relayServer \in {"refused", "error"}
    /\ RelayResolved(FALSE)
    /\ UNCHANGED serviceVars /\ UNCHANGED imapVars
    /\ UNCHANGED <<fetchCall, analysis>>

\* line 308-311
RelayTimeout ==
    /\ probe.pc = "relayConnected"
    /\ probe.relayServer = "silent"
    /\ RelayResolved(FALSE)
    /\ UNCHANGED serviceVars /\ UNCHANGED imapVars
    /\ UNCHANGED <<fetchCall, analysis>>

\* The server closes the connection without sending anything: the socket
\* emits 'end' and 'close', for which line 286-312 registers no handler, and
\* a closed socket's timeout timer is cleared.
RelayClose ==
    /\ probe.pc = "relayConnected"
    /\ probe.relayServer = "closed"
    /\ probe' = [probe EXCEPT !.pc = "relayClosed"]
    /\ UNCHANGED serviceVars /\ UNCHANGED imapVars
    /\ UNCHANGED <<fetchCall, analysis>>

\* email-sync.module.ts line 450-470: the analysis has returned and the
\* message is saved with it
StoreAnalysed ==
    /\ probe.pc = "returned"
    /\ probe' = [probe EXCEPT !.pc = "stored"]
    /\ UNCHANGED serviceVars /\ UNCHANGED imapVars
    /\ UNCHANGED <<fetchCall, analysis>>

NextProbe ==
    \/ TlsSecureConnect
    \/ TlsError
    \/ TlsTimeout
    \/ RelayConnect
    \/ RelayData
    \/ RelayError
    \/ RelayTimeout
    \/ RelayClose
    \/ StoreAnalysed

\* every socket event that can happen does happen, and the awaiting code runs
SpecProbe == InitProbe /\ [][NextProbe]_vars /\ WF_vars(NextProbe)

\* ------------------------- ImapService.getEmails: messages, parses, 'end'
\* One call of getEmails from the fetch on (line 172-225).  The server sends
\* the messages of the range in an order of its choosing; the 'end' handler
\* of a message starts its parse (199-201), which completes in a later turn
\* of the event loop and then pushes the message (202-213) or logs a parse
\* error (214-216); the 'end' of the fetch resolves the promise with the
\* array (222-224).  `fails` are the messages whose parse throws.
RangeOf(total, limit, offset) ==
    LET start == FetchStart(total, limit, offset)
        end == FetchEnd(total, offset)
    IN {n \in 1..total : start <= n /\ n <= end}

InitParse ==
    /\ server = [mailbox |-> Mailboxes, invalid |-> {}]
    /\ InitProgram
    /\ InitImap
    /\ \E total \in 1..MaxParseTotal, limit \in 1..MaxParseTotal :
          \E fails \in SUBSET RangeOf(total, limit, 0) :
             fetchCall = [pc |-> "fetching", total |-> total, limit |-> limit,
                          offset |-> 0, undelivered |-> RangeOf(total, limit, 0),
                          parsing |-> {}, fails |-> fails,
                          emails |-> <<>>, result |-> <<>>]
    /\ analysis = NoAnalysis
    /\ probe = NoProbe

\* line 180-201: a message has arrived whole, its parse is started
MessageEnd(m) ==
    /\ fetchCall.pc = "fetching"
    /\ m \in fetchCall.undelivered
    /\ fetchCall' = [fetchCall EXCEPT !.undelivered = @ \ {m}, !.parsing = @ \cup {m}]
    /\ UNCHANGED serviceVars /\ UNCHANGED imapVars
    /\ UNCHANGED <<analysis, probe>>

\* line 201-213: simpleParser has resolved, the message is pushed
ParseDone(m) ==
    /\ fetchCall.pc \in {"fetching", "resolved"}
    /\ m \in fetchCall.parsing
    /\ m \notin fetchCall.fails
    /\ fetchCall' = [fetchCall EXCEPT !.parsing = @ \ {m}, !.emails = Append(@, m)]
    /\ UNCHANGED serviceVars /\ UNCHANGED imapVars
    /\ UNCHANGED <<analysis, probe>>

\* line 214-216: simpleParser has rejected
ParseError(m) ==
    /\ fetchCall.pc \in {"fetching", "resolved"}
    /\ m \in fetchCall.parsing
    /\ m \in fetchCall.fails
    /\ fetchCall' = [fetchCall EXCEPT !.parsing = @ \ {m}]
    /\ UNCHANGED serviceVars /\ UNCHANGED imapVars
    /\ UNCHANGED <<analysis, probe>>

\* line 222-224: every message has arrived; the promise is resolved with the
\* array as it is (`result` is what the awaiting caller finds when it resumes)
FetchEndEvent ==
    /\ fetchCall.pc = "fetching"
    /\ fetchCall.undelivered = {}
    /\ fetchCall' = [fetchCall EXCEPT !.pc = "resolved", !.result = fetchCall.emails]
    /\ UNCHANGED serviceVars /\ UNCHANGED imapVars
    /\ UNCHANGED <<analysis, probe>>

NextParse ==
    \/ \E m \in 1..MaxParseTotal : MessageEnd(m)
    \/ \E m \in 1..MaxParseTotal : ParseDone(m)
    \/ \E m \in 1..MaxParseTotal : ParseError(m)
    \/ FetchEndEvent

SpecParse == InitParse /\ [][NextParse]_vars

\* ------------------------------- processEmailBatch, one fetched message
\* One pass of the loop of processEmailBatch over a message as getEmails
\* builds it: to, cc and bcc are parsed.to?.text and so on (imap.service.ts
\* 206-208), each a string or undefined; htmlContent is a string or
\* undefined.  `stored` says that the message is in the collection already,
\* `valid` that the document passes the schema's validation.
FieldValues == {"undefined", "string"}

\* app.module.ts 325-327: x?.join(' ') || ''.  undefined gives '', an array
\* its elements, and a string has no join method: the call throws
JoinOrEmpty(x) ==
    CASE x = "undefined" -> "empty"
      [] x = "array" -> "joined"
      [] x = "string" -> "TypeError"

\* app.module.ts 322-334
generateSearchableContent(emailData) ==
    IF "TypeError" \in {JoinOrEmpty(emailData.to), JoinOrEmpty(emailData.cc),
                        JoinOrEmpty(emailData.bcc)}
    THEN "TypeError"
    ELSE IF emailData.htmlContent = "string" THEN "text and stripped html" ELSE "text"

InitStore ==
    /\ server = [mailbox |-> Mailboxes, invalid |-> {}]
    /\ InitProgram
    /\ InitImap
    /\ fetchCall = NoFetch
    /\ \E to \in FieldValues, cc \in FieldValues, bcc \in FieldValues,
          html \in FieldValues, stored \in BOOLEAN, valid \in BOOLEAN :
          analysis = [pc |-> "findOne", to |-> to, cc |-> cc, bcc |-> bcc,
                      htmlContent |-> html, stored |-> stored, valid |-> valid,
                      searchableContent |-> "none", saved |-> FALSE,
                      success |-> 0, failed |-> 0]
    /\ probe = NoProbe

\* email-sync.module.ts 440-447
BatchFindOne ==
    /\ analysis.pc = "findOne"
    /\ analysis' = [analysis EXCEPT !.pc = IF analysis.stored THEN "done" ELSE "analyze"]
    /\ UNCHANGED serviceVars /\ UNCHANGED imapVars
    /\ UNCHANGED <<fetchCall, probe>>

\* email-sync.module.ts 450-474, 478-481: analyzeEmail has returned, the
\* searchable content is generated and the document is built; a throw is
\* caught and counted
BatchAnalyze ==
    /\ analysis.pc = "analyze"
    /\ LET searchableContent == generateSearchableContent(analysis)
       IN IF searchableContent = "TypeError"
          THEN analysis' = [analysis EXCEPT !.pc = "done", !.failed = @ + 1]
          ELSE analysis' = [analysis EXCEPT !.pc = "save",
                                            !.searchableContent = searchableContent]
    /\ UNCHANGED serviceVars /\ UNCHANGED imapVars
    /\ UNCHANGED <<fetchCall, probe>>

\* email-sync.module.ts 476-481
BatchSave ==
    /\ analysis.pc = "save"
    /\ IF analysis.valid
       THEN analysis' = [analysis EXCEPT !.pc = "done", !.saved = TRUE, !.success = @ + 1]
       ELSE analysis' = [analysis EXCEPT !.pc = "done", !.failed = @ + 1]
    /\ UNCHANGED serviceVars /\ UNCHANGED imapVars
    /\ UNCHANGED <<fetchCall, probe>>

NextStore ==
    \/ BatchFindOne
    \/ BatchAnalyze
    \/ BatchSave

SpecStore == InitStore /\ [][NextStore]_vars

\* ------------------- a run's session and the operations that close sessions
\* The IMAP side of one performSync run (`fetchCall`: it acquires the session
\* of its account and uses it for listFolders and getEmails until it returns)
\* next to the operations of the account service that touch the pool
\* (`probe`): ImapService.testConnection, and the closeConnection made by
\* EmailAccountsService.remove.  The server is well behaved except that a
\* connection attempt may fail.
NoUse == [pc |-> "idle", key |-> "none", imap |-> NoSession]

InitShare ==
    /\ server = [mailbox |-> Mailboxes, invalid |-> {}]
    /\ InitProgram
    /\ InitImap
    /\ fetchCall = NoUse
    /\ analysis = NoAnalysis
    /\ probe = NoUse

\* createConnection up to imap.connect() (25-76, 95) for the caller `use`:
\* the cached authenticated session, or a new Imap
Acquire(k, use, pcCached) ==
    IF IsCached(k) /\ IsUsable(connectionPool[k])
    THEN /\ use' = [pc |-> pcCached, key |-> k, imap |-> connectionPool[k]]
         /\ acquired' = connectionPool[k]
         /\ UNCHANGED sessions
    ELSE /\ FreeSessions # {}
         /\ sessions' = [sessions EXCEPT ![LowestOf(FreeSessions)] =
                             [NoImap EXCEPT !.key = k, !.state = "connecting"]]
         /\ use' = [pc |-> "connecting", key |-> k, imap |-> LowestOf(FreeSessions)]
         /\ acquired' = NoSession

\* line 78-82: 'ready' of the session the caller waits for
Ready(use) ==
    /\ use.pc = "connecting"
    /\ sessions[use.imap].state = "connecting"
    /\ sessions' = [sessions EXCEPT ![use.imap].state = "authenticated"]
    /\ connectionPool' = [connectionPool EXCEPT ![use.key] = use.imap]
    /\ acquired' = use.imap

\* email-sync.module.ts 298: the run calls getConnection
RunGetConnection(k) ==
    /\ fetchCall.pc = "idle"
    /\ Acquire(k, fetchCall, "using")
    /\ UNCHANGED <<connectionPool, analysis, probe>>
    /\ UNCHANGED serviceVars

RunReady ==
    /\ Ready(fetchCall)
    /\ fetchCall' = [fetchCall EXCEPT !.pc = "using"]
    /\ UNCHANGED <<analysis, probe>>
    /\ UNCHANGED serviceVars

\* email-sync.module.ts 406, 420: the run returns; it closes nothing
RunReturns ==
    /\ fetchCall.pc = "using"
    /\ fetchCall' = NoUse
    /\ acquired' = NoSession
    /\ UNCHANGED <<connectionPool, sessions, analysis, probe>>
    /\ UNCHANGED serviceVars

\* line 255-257: testConnection calls createConnection
TestConnection(k) ==
    /\ probe.pc = "idle"
    /\ Acquire(k, probe, "close")
    /\ UNCHANGED <<connectionPool, fetchCall, analysis>>
    /\ UNCHANGED serviceVars

TestReady ==
    /\ Ready(probe)
    /\ probe' = [probe EXCEPT !.pc = "close"]
    /\ UNCHANGED <<fetchCall, analysis>>
    /\ UNCHANGED serviceVars

\* line 84-88, 260-263: the connection attempt of the test fails
TestError ==
    /\ probe.pc = "connecting"
    /\ sessions[probe.imap].state = "connecting"
    /\ sessions' = [sessions EXCEPT ![probe.imap].state = "disconnected",
                                    ![probe.imap].errorHandled = TRUE]
    /\ connectionPool' = [connectionPool EXCEPT ![probe.key] = NoSession]
    /\ probe' = NoUse
    /\ acquired' = NoSession
    /\ UNCHANGED <<fetchCall, analysis>>
    /\ UNCHANGED serviceVars

\* line 232-240: closeConnection(account) ends and removes whatever session is
\* cached under the account's key
Closed(k) ==
    /\ sessions' = IF IsCached(k)
                   THEN [sessions EXCEPT ![connectionPool[k]].state = "disconnected"]
                   ELSE sessions
    /\ connectionPool' = [connectionPool EXCEPT ![k] = NoSession]
    /\ acquired' = NoSession

\* line 258-259: testConnection closes the connection and returns true
TestClose ==
    /\ probe.pc = "close"
    /\ Closed(probe.key)
    /\ probe' = NoUse
    /\ UNCHANGED <<fetchCall, analysis>>
    /\ UNCHANGED serviceVars

\* email-accounts.service.ts 120-121: remove closes the account's connection
RemoveCloses(k) ==
    /\ probe.pc = "idle"
    /\ IsCached(k)
    /\ Closed(k)
    /\ UNCHANGED <<fetchCall, analysis, probe>>
    /\ UNCHANGED serviceVars

NextShare ==
    \/ \E k \in AccountIds : RunGetConnection(k)
    \/ RunReady
    \/ RunReturns
    \/ \E k \in AccountIds : TestConnection(k)
    \/ TestReady
    \/ TestError
    \/ TestClose
    \/ \E k \in AccountIds : RemoveCloses(k)

SpecShare == InitShare /\ [][NextShare]_vars

\* ------------------------------------------- EmailAccountsService.remove
\* email-accounts.service.ts 113-135, one action per await; the service holds
\* the account model, the email model and the IMAP service, and no model of
\* the SyncStatus collection (18-24).
\* line 115-118: findById
Remove(a) ==
    /\ FreeCalls # {}
    /\ IF ~accounts[a].exists
       THEN /\ response' = Reply("remove", a, "NotFound", "none")
            /\ UNCHANGED calls
       ELSE /\ calls' = [calls EXCEPT ![LowestOf(FreeCalls)] =
                            NewCall("remove", a, "closeConnection", 0, 0, <<>>)]
            /\ NoReply
    /\ UNCHANGED <<accounts, syncStatus, emails, syncJobs, tasks>>
    /\ Issue

\* line 121: closeConnection(account)
RemoveCloseConnection(c) ==
    /\ calls[c].op = "remove"
    /\ calls[c].pc = "closeConnection"
    /\ Closed(calls[c].acc)
    /\ calls' = [calls EXCEPT ![c].pc = "deleteEmails"]
    /\ UNCHANGED <<accounts, syncStatus, emails, syncJobs, tasks>>
    /\ NoReply
    /\ UNCHANGED <<server, issued, started>> /\ UNCHANGED unitVars /\ Settled

\* line 124: emailModel.deleteMany({ accountId: id })
RemoveDeleteEmails(c) ==
    /\ calls[c].op = "remove"
    /\ calls[c].pc = "deleteEmails"
    /\ emails' = [emails EXCEPT ![calls[c].acc] = [m \in MessageIds |-> 0]]
    /\ calls' = [calls EXCEPT ![c].pc = "deleteAccount"]
    /\ UNCHANGED <<accounts, syncStatus, syncJobs, tasks>>
    /\ NoReply
    /\ Frame

\* line 127-130: findByIdAndDelete, return true
RemoveDeleteAccount(c) ==
    /\ calls[c].op = "remove"
    /\ calls[c].pc = "deleteAccount"
    /\ accounts' = [accounts EXCEPT ![calls[c].acc] = NoAccount]
    /\ response' = Reply("remove", calls[c].acc, "ok", "none")
    /\ calls' = [calls EXCEPT ![c] = NoCall]
    /\ UNCHANGED <<syncStatus, emails, syncJobs, tasks>>
    /\ Frame

\* The removal of a1 next to runs of a1, every IMAP call succeeding.
NextRemove ==
    \/ \E bs \in BatchSizes : StartSync("a1", bs, UnlimitedEmails)
    \/ \E c \in CallIds : StartFindStatus(c)
    \/ \E c \in CallIds : StartUpsert(c)
    \/ \E t \in TaskIds : ListFoldersOk(t)
    \/ \E t \in TaskIds : ResetProgress(t)
    \/ \E t \in TaskIds : GetEmailsOk(t)
    \/ \E t \in TaskIds : FindEmail(t)
    \/ \E t \in TaskIds : SaveEmail(t)
    \/ \E t \in TaskIds : UpdateProgress(t)
    \/ \E t \in TaskIds : UpdateFolderProgress(t)
    \/ \E t \in TaskIds : WriteCompleted(t)
    \/ \E t \in TaskIds : UpdateAccount(t)
    \/ Remove("a1")
    \/ \E c \in CallIds : RemoveCloseConnection(c)
    \/ \E c \in CallIds : RemoveDeleteEmails(c)
    \/ \E c \in CallIds : RemoveDeleteAccount(c)

SpecRemove == Init /\ [][NextRemove]_vars

\* ------------------------------------------------------------ properties
StatusOf(a) == IF syncStatus[a].exists THEN syncStatus[a].status ELSE "none"
StatusOfNext(a) == IF syncStatus'[a].exists THEN syncStatus'[a].status ELSE "none"
Stepped(t) == tasks[t] # NoTask /\ tasks'[t] # tasks[t]
Returned(c) == calls[c] # NoCall /\ calls'[c] = NoCall
ProgramUnchanged == UNCHANGED <<accounts, syncStatus, emails, syncJobs, tasks>>

\* C1: at most one performSync run is in flight per account.
OneRunPerAccount == \A a \in AccountIds : Cardinality(TasksOf(a)) <= 1

\* C2: start is refused while the status is RUNNING, pause is accepted only
\* from RUNNING and resume only from PAUSED, and a call that is refused (state
\* or not-found) changes neither the documents nor the runs in flight.
RefusedResults == {"AlreadyRunning", "NotFound", "NoActiveSync", "NoPausedSync"}
RefusalStep ==
    /\ response'.result \in RefusedResults => ProgramUnchanged
    /\ \A c \in CallIds :
          /\ ( /\ calls[c] # NoCall /\ calls[c].pc = "findStatus" /\ calls'[c] # calls[c]
               /\ StatusOf(calls[c].acc) = "RUNNING" )
             => /\ ProgramUnchanged
                /\ calls[c].op = "start"
                     => response' = Reply("start", calls[c].acc, "AlreadyRunning", "none")
          /\ (calls[c] = NoCall /\ calls'[c] # NoCall /\ calls'[c].op = "pause")
             => StatusOf(calls'[c].acc) = "RUNNING"
          /\ (calls[c] = NoCall /\ calls'[c] # NoCall /\ calls'[c].op = "resume")
             => StatusOf(calls'[c].acc) = "PAUSED"
    /\ \A a \in AccountIds :
          /\ (response'.op = "pause" /\ response'.acc = a /\ StatusOf(a) # "RUNNING"
                 /\ \A c \in CallIds : ~Returned(c))
             => response'.result \in {"NotFound", "NoActiveSync"}
          /\ (response'.op = "resume" /\ response'.acc = a /\ StatusOf(a) # "PAUSED"
                 /\ \A c \in CallIds : ~Returned(c))
             => response'.result \in {"NotFound", "NoPausedSync"}
RefusedCallsChangeNothing == [][RefusalStep]_vars
\* a second start was refused while the first run is in flight
RefusedWhileRunning ==
    /\ response = Reply("start", "a1", "AlreadyRunning", "none")
    /\ TasksOf("a1") # {}
    /\ StatusOf("a1") = "RUNNING"

\* C3: once the status is PAUSED or IDLE (a pause or a stop was accepted), a
\* run of that account begins no further batch and no further folder and
\* writes no status.
HaltedStep ==
    \A t \in TaskIds :
        (Stepped(t) /\ StatusOf(tasks[t].acc) \in {"PAUSED", "IDLE"})
        => /\ StatusOfNext(tasks[t].acc) = StatusOf(tasks[t].acc)
           /\ tasks'[t] # NoTask =>
                 /\ ~(tasks'[t].pc = "getEmails" /\ tasks'[t].fi # tasks[t].fi)
                 /\ ~(tasks'[t].pc = "findEmail" /\ tasks[t].pc \notin {"findEmail", "saveEmail"})
RunStopsAtBatchBoundary == [][HaltedStep]_vars

\* C4: a pause call returns the PAUSED record or a state or not-found
\* rejection, nothing else.
PauseReturnsPausedOrRejection ==
    response.op = "pause" =>
        \/ response.result = "ok" /\ response.status = "PAUSED"
        \/ response.result \in {"NotFound", "NoActiveSync"}

\* C5: every change of status is an edge of the state graph, made by the
\* operation the graph names: RUNNING is entered by a start from no record,
\* IDLE, COMPLETED or ERROR and by a resume from PAUSED; PAUSED is entered
\* from RUNNING; COMPLETED and ERROR are entered from RUNNING; IDLE is entered
\* by a stop.
StatusGraph ==
    {<<"none", "RUNNING">>, <<"IDLE", "RUNNING">>, <<"COMPLETED", "RUNNING">>,
     <<"ERROR", "RUNNING">>, <<"PAUSED", "RUNNING">>,
     <<"RUNNING", "PAUSED">>, <<"RUNNING", "COMPLETED">>, <<"RUNNING", "ERROR">>,
     <<"RUNNING", "IDLE">>, <<"PAUSED", "IDLE">>, <<"COMPLETED", "IDLE">>,
     <<"ERROR", "IDLE">>}
StartOps == {"start", "startAll", "scheduled"}
ActsOn(ops, a) ==
    \E c \in CallIds :
        calls[c] # NoCall /\ calls[c].op \in ops /\ calls[c].acc = a /\ calls'[c] # calls[c]
StatusEdge(a) ==
    LET from == StatusOf(a)
        to == StatusOfNext(a)
    IN to # from =>
          /\ <<from, to>> \in StatusGraph
          /\ to = "RUNNING" => ActsOn(IF from = "PAUSED" THEN {"resume"} ELSE StartOps, a)
          /\ to = "IDLE" => ActsOn({"stop"}, a)
          /\ to = "PAUSED" => ActsOn({"pause"}, a)
StatusFollowsGraph == [][\A a \in AccountIds : StatusEdge(a)]_vars

\* C6: after a pause followed by a resume, processedEmails is at least what
\* it was when the pause was accepted.
ProcessedNeverDecreasesAcrossResume ==
    \A a \in AccountIds :
        (syncStatus[a].exists /\ syncStatus[a].resumed)
        => syncStatus[a].processedEmails >= syncStatus[a].pausedAt

\* C7: stop returns without error in every state and leaves the record IDLE,
\* stamped and without a resume cursor.
StopAlwaysSucceeds ==
    \A a \in AccountIds :
        (response.op = "stop" /\ response.acc = a)
        => /\ response.result = "ok"
           /\ StatusOf(a) = "IDLE"
           /\ syncStatus[a].completedAt
           /\ syncStatus[a].lastProcessedMessageId = NullId

\* C8: a message is stored at most once per account, whatever runs interleave,
\* and a run that finds a message already stored stores nothing and counts it
\* neither as processed nor as failed.
SkipStep ==
    \A t \in TaskIds :
        ( /\ Stepped(t) /\ tasks[t].pc = "findEmail"
          /\ emails[tasks[t].acc][Batch(tasks[t])[tasks[t].j]] > 0 )
        => /\ emails' = emails
           /\ tasks'[t].pc # "saveEmail"
           /\ tasks'[t].success = tasks[t].success
           /\ tasks'[t].failed = tasks[t].failed
           /\ tasks'[t].pc = "updateProgress"
                => /\ tasks'[t].totalProcessed = tasks[t].totalProcessed + tasks[t].success
                   /\ tasks'[t].totalFailed = tasks[t].totalFailed + tasks[t].failed
StoredAtMostOnce ==
    /\ [](\A a \in AccountIds, m \in MessageIds : emails[a][m] <= 1)
    /\ [][SkipStep]_vars
\* a second run has gone through a folder whose only message was stored
RerunSkippedStored ==
    \E t \in TaskIds :
        /\ At(t, "updateProgress")
        /\ tasks[t].success = 0 /\ tasks[t].failed = 0
        /\ \A k \in 1..Len(tasks[t].fetched) : emails[tasks[t].acc][tasks[t].fetched[k]] = 1

\* C9: a folder whose fetch throws is counted as one failure and the run goes
\* on with the next folder; no folder failure makes the run write ERROR, and
\* the run ends by writing COMPLETED (unless the maxEmails cap cut it short).
FolderErrorStep ==
    \A t \in TaskIds :
        Stepped(t) =>
            LET rec == tasks[t]
            IN /\ rec.pc = "getEmails" => tasks'[t] # NoTask
               /\ ( /\ rec.pc = "getEmails" /\ tasks'[t] # NoTask
                    /\ tasks'[t].totalFailed = rec.totalFailed + 1 )
                  => IF rec.fi < Len(rec.foldersToSync)
                     THEN tasks'[t].pc = "getEmails" /\ tasks'[t].fi = rec.fi + 1
                     ELSE tasks'[t].pc = "writeCompleted"
               /\ (tasks'[t] # NoTask /\ tasks'[t].pc = "writeError") => rec.pc = "listFolders"
               /\ rec.pc = "writeCompleted"
                  => /\ StatusOfNext(rec.acc) = "COMPLETED"
                     /\ syncStatus'[rec.acc].failedEmails = rec.totalFailed
               /\ (tasks'[t] = NoTask /\ rec.totalFailed > 0)
                  => rec.pc \in {"updateAccount", "updateFolderProgress"}
FolderErrorDoesNotAbort == [][FolderErrorStep]_vars
\* INBOX threw, Sent was synced all the same and the run completed
CompletedAfterFolderError ==
    /\ StatusOf("a1") = "COMPLETED"
    /\ syncStatus["a1"].processedEmails = 1
    /\ syncStatus["a1"].failedEmails = 1
    /\ emails["a1"][1] = 1

\* C10: for an account whose folders are all empty, a record that is RUNNING
\* eventually is COMPLETED with processedEmails = 0 and failedEmails = 0; a
\* run of that account ends only after it wrote COMPLETED, and the record
\* never shows another count nor ERROR.
EmptyAccounts ==
    {a \in AccountIds : \A f \in FolderNames : server.mailbox[a][f] = <<>>}
EmptyAccountStep ==
    /\ \A a \in EmptyAccounts :
          syncStatus'[a].exists
          => /\ syncStatus'[a].processedEmails = 0
             /\ syncStatus'[a].failedEmails = 0
             /\ syncStatus'[a].status # "ERROR"
    /\ \A t \in TaskIds :
          (Stepped(t) /\ tasks[t].acc \in EmptyAccounts)
          => /\ tasks'[t] = NoTask => tasks[t].pc = "updateAccount"
             /\ tasks[t].pc = "writeCompleted" => StatusOfNext(tasks[t].acc) = "COMPLETED"
             /\ (tasks'[t] # NoTask /\ tasks'[t].pc = "updateAccount")
                => tasks[t].pc = "writeCompleted"
EmptyAccountCompletes ==
    /\ [][EmptyAccountStep]_vars
    /\ \A a \in AccountIds :
          (a \in EmptyAccounts /\ StatusOf(a) = "RUNNING")
          ~> ( /\ StatusOf(a) = "COMPLETED"
               /\ syncStatus[a].processedEmails = 0
               /\ syncStatus[a].failedEmails = 0 )
\* the run of the empty account a2 has ended and its record is COMPLETED, 0/0
EmptyAccountCompleted ==
    /\ StatusOf("a2") = "COMPLETED"
    /\ syncStatus["a2"].processedEmails = 0
    /\ syncStatus["a2"].failedEmails = 0
    /\ TasksOf("a2") = {}

\* C11: an exception that reaches the outer catch of a run sets the record to
\* ERROR with the error text and a completion time, and the run's promise is
\* not rejected without a handler.
RunErrorStep ==
    \A t \in TaskIds :
        (Stepped(t) /\ tasks[t].pc = "writeError")
        => /\ StatusOfNext(tasks[t].acc) = "ERROR"
           /\ syncStatus'[tasks[t].acc].errorMessage = tasks[t].error
           /\ syncStatus'[tasks[t].acc].completedAt
           /\ unhandled' = "none"
RunErrorsAreContained == [][RunErrorStep]_vars

\* C12: a run with maxEmails = m > 0 persists at most m messages, and once
\* its count has reached m it begins no further batch and no further folder.
CappedStep ==
    \A t \in TaskIds :
        (Stepped(t) /\ tasks[t].maxEmails > 0 /\ tasks[t].totalProcessed >= tasks[t].maxEmails
            /\ tasks'[t] # NoTask)
        => /\ ~(tasks'[t].pc = "getEmails" /\ tasks'[t].fi # tasks[t].fi)
           /\ ~(tasks'[t].pc = "findEmail" /\ tasks[t].pc \notin {"findEmail", "saveEmail"})
\* the messages the run has persisted: those of its finished batches and
\* those of the batch in progress
Persisted(rec) ==
    rec.totalProcessed + (IF rec.pc \in {"findEmail", "saveEmail"} THEN rec.success ELSE 0)
CapIsNeverExceeded ==
    /\ [](\A t \in TaskIds :
            (tasks[t] # NoTask /\ tasks[t].maxEmails > 0)
            => Persisted(tasks[t]) <= tasks[t].maxEmails)
    /\ [][CappedStep]_vars

\* C20: when a run without cap has written COMPLETED, no message of any
\* folder of the account is left unfetched: each one is stored (by this run
\* or before) or is one whose save fails.
Unaccounted(a) ==
    {m \in MessageIds :
        /\ \E f \in FolderNames, k \in 1..3 :
               k <= Len(server.mailbox[a][f]) /\ server.mailbox[a][f][k] = m
        /\ emails[a][m] = 0
        /\ m \notin server.invalid}
CompletedRunFetchedEverything ==
    \A t \in TaskIds :
        (At(t, "updateAccount") /\ tasks[t].maxEmails = UnlimitedEmails)
        => Unaccounted(tasks[t].acc) = {}

\* C13: the pool never holds more sessions than the configured maximum.
PoolIsBounded ==
    Cardinality({k \in AccountIds : IsCached(k)}) <= MaxConnections

\* C14: a session handed out by an acquire is authenticated (neither ended
\* nor failed), the error of a session leaves the pool without an entry for
\* its account, and no session that ended or failed is put into the pool.
AcquireStep ==
    /\ acquired' # NoSession => sessions'[acquired'].state = "authenticated"
    /\ \A s \in SessionIds :
          /\ (~sessions[s].errorHandled /\ sessions'[s].errorHandled)
             => connectionPool'[sessions[s].key] = NoSession
          /\ (~sessions[s].endHandled /\ sessions'[s].endHandled)
             => connectionPool'[sessions[s].key] = NoSession
    /\ \A k \in AccountIds :
          (connectionPool'[k] # connectionPool[k] /\ connectionPool'[k] # NoSession)
          => sessions'[connectionPool'[k]].state = "authenticated"
AcquireNeverReturnsDeadSession == [][AcquireStep]_vars
\* a cached session died silently and the next acquire opened a new one
ReconnectedAfterSilentClose ==
    \E k \in AccountIds, s \in SessionIds :
        /\ IsCached(k) /\ sessions[connectionPool[k]].state = "disconnected"
        /\ sessions[s].key = k /\ sessions[s].state = "connecting"

\* C15: with T messages, getEmails returns the empty sequence when
\* offset >= T; otherwise it fetches exactly the sequence numbers
\* max(1, T - offset - limit + 1) .. T - offset, the newest
\* min(limit, T - offset) messages lying offset back from the newest.
FetchedExactlyTheWindow ==
    fetchCall.pc = "resolved" =>
        LET T == fetchCall.total
            l == fetchCall.limit
            o == fetchCall.offset
            r == fetchCall.result
        IN IF o >= T THEN r = <<>>
           ELSE /\ Len(r) = (IF l < T - o THEN l ELSE T - o)
                /\ r[Len(r)] = T - o
                /\ r[1] = (IF T - o - l + 1 > 1 THEN T - o - l + 1 ELSE 1)
                /\ \A i \in 1..(Len(r) - 1) : r[i + 1] = r[i] + 1
\* a window that lies inside the folder, back from the newest message
FetchedInnerWindow ==
    /\ fetchCall.pc = "resolved"
    /\ fetchCall.offset > 0
    /\ fetchCall.total - fetchCall.offset > fetchCall.limit
    /\ Len(fetchCall.result) = fetchCall.limit

\* C16: startAllSync and scheduledSync go through their accounts in order;
\* whatever a start returns the loop goes on with the next account, a
\* scheduled start is attempted exactly when the status read is not RUNNING,
\* and the batch ends only after the last account, without error, startAll
\* with one result entry per active account whose success tells whether the
\* start was accepted.
BatchOps == {"startAll", "scheduled"}
BatchStep ==
    \A c \in CallIds :
        (calls[c] # NoCall /\ calls[c].op \in BatchOps /\ calls'[c] # calls[c])
        => LET old == calls[c]
               new == calls'[c]
               accepted == started' = started + 1
           IN /\ new # NoCall
                 => \/ new.rest = old.rest /\ new.acc = old.acc /\ new.results = old.results
                    \/ /\ new.rest = Tail(old.rest) /\ new.acc = Head(new.rest)
                       /\ old.op = "startAll"
                          => new.results = Append(old.results,
                                                  [acc |-> old.acc, success |-> accepted])
              /\ new = NoCall
                 => /\ Len(old.rest) = 1
                    /\ response'.op = old.op /\ response'.result = "ok"
                    /\ old.op = "startAll"
                       => /\ Len(response'.results) = Len(ActiveAccounts)
                          /\ \A i \in 1..Len(ActiveAccounts) :
                                response'.results[i].acc = ActiveAccounts[i]
                          /\ response'.results[Len(ActiveAccounts)].success = accepted
              /\ old.pc = "schedStatus"
                 => IF StatusOf(old.acc) = "RUNNING"
                    THEN new = NoCall \/ new.rest = Tail(old.rest)
                    ELSE new # NoCall /\ new.pc = "findAccount" /\ new.acc = old.acc
BatchGoesOnAfterFailure == [][BatchStep]_vars
\* startAll returned: the start of a1 failed, that of a2 was made and accepted
StartAllCapturedFailure ==
    /\ response.op = "startAll"
    /\ response.results = <<[acc |-> "a1", success |-> FALSE], [acc |-> "a2", success |-> TRUE]>>

\* C17: when a run has failed to connect to the account's IMAP server, the
\* step that handles the failure leaves the account marked disconnected with
\* the failure text as its errorMessage.
ConnectFailureStep ==
    \A t \in TaskIds :
        (Stepped(t) /\ tasks[t].pc = "writeError" /\ tasks[t].error = "connect")
        => /\ ~accounts'[tasks[t].acc].isConnected
           /\ accounts'[tasks[t].acc].errorMessage = tasks[t].error
ConnectFailureMarksAccount == [][ConnectFailureStep]_vars

\* C18: for a from header `local@d` or `Name <local@d>` the analysis returns
\* sendingDomain d and the type and name of the first table entry whose
\* pattern matches d, or Custom, Custom/Unknown when none does.
FirstMatching(d) ==
    LET hits == {i \in 1..Len(espPatterns) : Test(espPatterns[i], ToLowerCase(d))}
    IN IF hits = {} THEN [type |-> "Custom", name |-> "Custom/Unknown"]
       ELSE LET i == CHOOSE h \in hits : \A k \in hits : h <= k
            IN [type |-> categorizeESP(espPatterns[i].name), name |-> espPatterns[i].name]
InClaimedForm == analysis.pc = "returned" /\ analysis.form \in {"bare", "named"}
DomainAndEspOfSender ==
    InClaimedForm
    => /\ analysis.sendingDomain = analysis.domain
       /\ analysis.espType = FirstMatching(analysis.domain).type
       /\ analysis.espName = FirstMatching(analysis.domain).name
\* what does hold: the pair, and the domain of a bare address
EspPairOfSender ==
    InClaimedForm
    => /\ analysis.espType = FirstMatching(analysis.domain).type
       /\ analysis.espName = FirstMatching(analysis.domain).name
       /\ analysis.form = "bare" => analysis.sendingDomain = analysis.domain

\* C19: whatever the probed server does, both probes resolve and the message
\* is stored, and a probe that met an error, a refusal or a timeout has
\* resolved to the negative result.
NegativeOnFailure ==
    /\ (probe.pc \notin {"none", "tls"} /\ probe.tlsServer \in {"refused", "error", "silent"})
       => probe.tls = NegativeTls
    /\ (probe.pc \in {"returned", "stored"} /\ probe.relayServer \in {"refused", "error", "silent"})
       => ~probe.isOpenRelay
TlsProbeResolves == []NegativeOnFailure /\ <>(probe.pc # "tls")

\* C21: with every IMAP and database call returning, a record that is RUNNING
\* eventually is no longer RUNNING, also when the run stops at the maxEmails
\* cap.
RunningEventuallyEnds ==
    \A a \in AccountIds : (StatusOf(a) = "RUNNING") ~> (StatusOf(a) # "RUNNING")

\* C22: when getEmails resolves, every message of the fetched range has been
\* parsed, and the result holds exactly the messages whose parse succeeded.
ElementsOf(seq) == {seq[i] : i \in 1..Len(seq)}
ResolvedAfterEveryParse ==
    fetchCall.pc = "resolved"
    => /\ fetchCall.parsing = {}
       /\ ElementsOf(fetchCall.result) =
             RangeOf(fetchCall.total, fetchCall.limit, fetchCall.offset) \ fetchCall.fails

\* C29: the array getEmails builds, which processEmailBatch goes through from
\* its first element on, holds the messages newest first, the sequence
\* numbers descending.
NewestFirst ==
    \A i, j \in 1..Len(fetchCall.emails) :
        i < j => fetchCall.emails[i] > fetchCall.emails[j]
FetchedNewestFirst == fetchCall.pc \in {"fetching", "resolved"} => NewestFirst

\* C23: a fetched message that is not stored yet, has a recipient field and
\* passes validation is saved with its searchable content and counted as
\* processed, not as failed.
HasRecipients == "string" \in {analysis.to, analysis.cc, analysis.bcc}
MessageWithRecipientsIsStored ==
    (analysis.pc = "done" /\ ~analysis.stored /\ analysis.valid /\ HasRecipients)
    => /\ analysis.saved
       /\ analysis.searchableContent \in {"text", "text and stripped html"}
       /\ analysis.success = 1 /\ analysis.failed = 0

\* C24: an analysis that extracted a sending domain d has sendingServer
\* mail.d, and the two probes were run against it.
SendingServerIsProbed ==
    (analysis.pc = "returned" /\ analysis.sendingDomain # Null)
    => /\ analysis.sendingServer = <<"mail", ".">> \o analysis.sendingDomain
       /\ analysis.probed

\* C25: a resume cursor that is set names a message stored for the account.
CursorIsStored ==
    \A a \in AccountIds :
        (syncStatus[a].exists /\ syncStatus[a].lastProcessedMessageId # NullId)
        => emails[a][syncStatus[a].lastProcessedMessageId] > 0

\* C26: the failed count of a folder's sub-progress is the number of failures
\* that occurred in that folder during the run: after a batch it is the count
\* the folder had before (none before the folder's first batch) plus the
\* failures of the batch, and a folder whose fetch throws counts one; the
\* sub-progress is written in the step that changes the global counters.
FolderFailedOf(r, f) == IF r.folderProgress[f] = NoProgress THEN 0 ELSE r.folderProgress[f].failed
FolderProgressStep ==
    \A t \in TaskIds :
        (Stepped(t) /\ tasks[t].pc \in {"getEmails", "updateProgress", "updateFolderProgress"}
                    /\ syncStatus[tasks[t].acc].exists)
        => LET rec == tasks[t]
               f == CurrentFolder(rec)
               old == syncStatus[rec.acc]
               new == syncStatus'[rec.acc]
           IN /\ rec.pc = "updateFolderProgress"
                 => new.folderProgress[f].failed =
                       (IF rec.i = 0 THEN 0 ELSE FolderFailedOf(old, f)) + rec.failed
              /\ (rec.pc = "getEmails" /\ tasks'[t].totalFailed # rec.totalFailed)
                 => FolderFailedOf(new, f) = FolderFailedOf(old, f) + 1
              /\ rec.pc = "updateProgress"
                 => new.folderProgress[f] # old.folderProgress[f]
FolderProgressCountsOwnFailures == [][FolderProgressStep]_vars

\* C28: a session that is authenticated is the one cached under its account
\* key, so an event of another session of the account has not evicted it and
\* no second authenticated session of the account exists.
LiveSessionsAreCached ==
    \A s \in SessionIds :
        sessions[s].state = "authenticated" => connectionPool[sessions[s].key] = s

\* C27: while a run is using its session, no step of another operation ends
\* the session or takes it out of the pool.
SessionInUseStep ==
    (fetchCall.pc = "using" /\ fetchCall' = fetchCall)
    => /\ sessions'[fetchCall.imap].state = "authenticated"
       /\ connectionPool'[fetchCall.key] = fetchCall.imap
SessionInUseIsLeftAlone == [][SessionInUseStep]_vars

\* C30: once an account has been deleted, no stored message and no sync
\* status record references it.
NothingReferencesDeletedAccount ==
    \A a \in ExistingAccounts :
        ~accounts[a].exists
        => /\ \A m \in MessageIds : emails[a][m] = 0
           /\ ~syncStatus[a].exists
\* the part about messages alone
NoMessageOfDeletedAccount ==
    \A a \in ExistingAccounts :
        ~accounts[a].exists => \A m \in MessageIds : emails[a][m] = 0

====
